---- MODULE Spec2Model ----
(***************************************************************************)
(* The task layer of the HQP controller (src/hqp/tasks.py) and its         *)
(* reference trajectories (src/trajectories.py) as a state machine.        *)
(*                                                                         *)
(* One task object lives in the state.  Its class is chosen by the         *)
(* constructor action that fires first; afterwards the configuration       *)
(* surface (attributes kp, kv, expDecay, adaptGain, kmin, kmax, beta, the  *)
(* mask and setGain methods), the collaborator update and the methods      *)
(* dyn_value / kin_value / jacobian are interleaved freely.                *)
(*                                                                         *)
(* Numbers.  The code computes in floating point.  Here every real is a    *)
(* fixed-point integer with three decimals (value * Scale).  Task-space    *)
(* vectors (errors, velocities, accelerations) carry one factor Scale,     *)
(* gains carry one factor Scale, and a desired acceleration, which is a    *)
(* gain times an error, carries two.  Jacobian entries and per-DOF gain    *)
(* factors are plain integers.  A float nan is the value NaN.              *)
(***************************************************************************)
EXTENDS Integers, Sequences, FiniteSets, TLC

\* ------------------------------------------------------------------ bounds
\* Number of actuated joints of the robot model (robot.nv - 6).
NJoints == 2
\* robot.nv: six floating-base velocities plus the actuated joints.
nv == 6 + NJoints

\* ------------------------------------------------------------ fixed point
\* One unit of a real number.
Scale == 1000
\* What np.sqrt returns for a negative argument.
NaN == -999999999

Abs(x) == IF x < 0 THEN -x ELSE x

RECURSIVE SqrtSearch(_, _, _)
SqrtSearch(x, lo, hi) ==
    IF lo >= hi THEN lo
    ELSE LET mid == (lo + hi + 1) \div 2
         IN  IF mid * mid <= x THEN SqrtSearch(x, mid, hi)
             ELSE SqrtSearch(x, lo, mid - 1)

\* floor(sqrt(x)) for 0 <= x < 2^31.
ISqrt(x) == SqrtSearch(x, 0, 46340)

\* ------------------------------------------------------ vectors, matrices
\* A vector is a sequence of integers, a matrix a sequence of rows.
Const(n, c) == [i \in 1..n |-> c]
Ramp(n, c) == [i \in 1..n |-> c * i]
Ones(n) == [i \in 1..n |-> TRUE]
Zeros(n) == [i \in 1..n |-> FALSE]

RECURSIVE SumSq(_)
SumSq(x) == IF x = <<>> THEN 0 ELSE Head(x) * Head(x) + SumSq(Tail(x))

\* np.linalg.norm of a vector whose entries carry one factor Scale.
Norm(x) == ISqrt(SumSq(x))

\* x[m]: the rows of x that a boolean index m of the same length selects.
RECURSIVE Rows(_, _)
Rows(x, m) ==
    IF x = <<>> \/ m = <<>> THEN <<>>
    ELSE (IF Head(m) THEN <<Head(x)>> ELSE <<>>) \o Rows(Tail(x), Tail(m))

\* mask.sum(): the number of true entries.
RECURSIVE CountTrue(_)
CountTrue(m) ==
    IF m = <<>> THEN 0 ELSE (IF Head(m) THEN 1 ELSE 0) + CountTrue(Tail(m))

\* J * np.diag(g): column c of J scaled by g[c].
ScaleCols(J, g) == [r \in 1..Len(J) |-> [c \in 1..Len(J[r]) |-> J[r][c] * g[c]]]

\* ------------------------------------------------------------- gain laws
\* exponentialDecay(kp) = 2*np.sqrt(kp); nan for a negative kp.
exponentialDecay(kp) == IF kp < 0 THEN NaN ELSE ISqrt(4 * kp * Scale)

\* np.exp(-x) for x = q/4, by repeated multiplication with exp(-1/4) = 0.779
\* (exp(1/4) = 1.284 for a negative exponent); 0 beyond exp(-10).
RECURSIVE ExpQuarter(_)
ExpQuarter(q) ==
    IF q = 0 THEN Scale
    ELSE IF q > 40 THEN 0
    ELSE IF q > 0 THEN (ExpQuarter(q - 1) * 779) \div Scale
    ELSE (ExpQuarter(q + 1) * 1284) \div Scale

\* adaptativeGain with kmin and kmax exchanged: kmax at a zero error.
adaptativeGain_swapped(p_error, kmin_, kmax_, beta_) ==
    LET x == beta_ * Norm(p_error)
        q == (4 * x) \div (Scale * Scale)
    IN  ((kmax_ - kmin_) * ExpQuarter(q)) \div Scale + kmin_

\* adaptativeGain(p_error, kmin, kmax, beta)
\*   = (kmin - kmax)*np.exp(-beta*np.linalg.norm(p_error)) + kmax
adaptativeGain(p_error, kmin_, kmax_, beta_) ==
    LET x == beta_ * Norm(p_error)            \* two factors Scale
        q == (4 * x) \div (Scale * Scale)     \* quarters, rounded down
    IN  ((kmin_ - kmax_) * ExpQuarter(q)) \div Scale + kmax_

\* One row of the proportional-derivative law
\*   a_ref - (kp*p_error + kv*v_error); nan as soon as a gain is nan.
PD(a_ref, kp_, p_err, kv_, v_err) ==
    IF kp_ = NaN \/ kv_ = NaN THEN NaN
    ELSE a_ref * Scale - (kp_ * p_err + kv_ * v_err)

PDVec(a_ref, kp_, p_err, kv_, v_err) ==
    [i \in 1..Len(p_err) |-> PD(a_ref[i], kp_, p_err[i], kv_, v_err[i])]

\* ------------------------------------------------------------------ poses
\* An element of SE3 with a rotation about z by R quarter turns and the
\* translation p (a 3-vector carrying one factor Scale).
Pose(R_, p_) == [R |-> R_, p |-> p_]

\* R * v for a 3-vector v.
Rot(R_, v) ==
    CASE R_ % 4 = 0 -> v
      [] R_ % 4 = 1 -> <<-v[2], v[1], v[3]>>
      [] R_ % 4 = 2 -> <<-v[1], -v[2], v[3]>>
      [] OTHER      -> <<v[2], -v[1], v[3]>>

Neg(v) == [i \in 1..Len(v) |-> -v[i]]
Add(a, b) == [i \in 1..Len(a) |-> a[i] + b[i]]
Sub(a, b) == [i \in 1..Len(a) |-> a[i] - b[i]]

\* SE3.inverse and SE3.__mul__
Inverse(M) == Pose((4 - M.R) % 4, Rot(4 - M.R, Neg(M.p)))
Mul(A, B) == Pose((A.R + B.R) % 4, Add(A.p, Rot(A.R, B.p)))

\* se3.log(M).vector: <<linear, angular>>.  For a rotation about z by theta
\* the linear part is V^-1 p with V^-1 = [[a, b], [-b, a]] on the xy plane,
\* a = (theta/2)cot(theta/2), b = theta/2; pi/2 = 1.571, pi/4 = 0.785.
log(M) ==
    LET x == M.p[1]
        y == M.p[2]
        z == M.p[3]
    IN  CASE M.R = 0 -> <<x, y, z, 0, 0, 0>>
          [] M.R = 1 -> <<(785 * (x + y)) \div Scale, (785 * (y - x)) \div Scale,
                          z, 0, 0, 1571>>
          [] M.R = 2 -> <<(1571 * y) \div Scale, (-1571 * x) \div Scale,
                          z, 0, 0, 3142>>
          [] OTHER   -> <<(785 * (x - y)) \div Scale, (785 * (x + y)) \div Scale,
                          z, 0, 0, -1571>>

\* errorInSE3(M, Mdes) = se3.log(Mdes.inverse()*M)
errorInSE3(M, Mdes) == log(Mul(Inverse(Mdes), M))

\* The two halves of a motion vector rotated by R (SE3 with zero translation
\* acting on a Motion), and by the inverse of R.
act(R_, m) == Rot(R_, SubSeq(m, 1, 3)) \o Rot(R_, SubSeq(m, 4, 6))
actInv(R_, m) == act(4 - (R_ % 4), m)

\* np.cross(a, b) of two 3-vectors carrying one factor Scale each.
cross(a, b) ==
    << (a[2] * b[3] - a[3] * b[2]) \div Scale,
       (a[3] * b[1] - a[1] * b[3]) \div Scale,
       (a[1] * b[2] - a[2] * b[1]) \div Scale >>

\* ----------------------------------------------- the robot collaborator
\* A snapshot of the dynamics engine after an update with the current (q, v):
\* the pose oMi of the tracked frame (also the floating-base pose q[:7] and
\* the centre of mass) and a velocity level vc.  Every derived quantity is a
\* fixed function of the snapshot.
P0 == Pose(0, <<0, 0, 0>>)
P1 == Pose(0, <<2000, 0, 0>>)
P2 == Pose(1, <<0, 2000, 0>>)

RobotStates == { [oMi |-> P0, vc |-> 1], [oMi |-> P2, vc |-> 2] }

\* robot.framePosition(frame_id), robot.frameVelocity(frame_id).vector,
\* robot.frameAcceleration(frame_id).vector
framePosition(rb) == rb.oMi
frameVelocity(rb) == Ramp(6, 100 * rb.vc)
frameAcceleration(rb) == Const(6, 10 * rb.vc)

\* robot.frameJacobian(q, frame_id, update_geometry): 6 x nv
frameJacobian(rb) ==
    [r \in 1..6 |-> [c \in 1..nv |->
        IF c = r THEN 1 ELSE IF c > 6 THEN r + rb.oMi.R ELSE 0]]

\* robot.com(q, v, 0*v): position, velocity and Coriolis acceleration
com(rb) == [p |-> rb.oMi.p, v |-> Ramp(3, 100 * rb.vc), a |-> Const(3, 10 * rb.vc)]

\* robot.Jcom(q): 3 x nv
Jcom(rb) ==
    [r \in 1..3 |-> [c \in 1..nv |->
        IF c = r THEN 1 ELSE IF c > 6 THEN 1 + rb.oMi.R ELSE 0]]

\* The arguments q[7:] and v of dyn_value, the latest configuration and
\* velocity, the ones the snapshot was computed from.
jointPosition(rb) == Const(NJoints, 100 * (rb.oMi.R + 1))
velocity(rb) == Ramp(nv, 100 * rb.vc)

\* robot.data.hg after se3.ccrba, the matrix se3.ccrba returns (6 x nv),
\* the bias wrench se3.nle(...)[:6] transported to the centre of mass,
\* the summed rate of change of momentum, and robot.fext.
hg(rb) == [i \in 1..6 |-> IF i <= 3 THEN rb.oMi.p[i] ELSE 0]
ccrba(rb) ==
    [r \in 1..6 |-> [c \in 1..nv |->
        IF c = r THEN 2 ELSE IF c > 6 THEN 1 ELSE 0]]
biasAtCom(rb) == Const(6, 5 * rb.vc * rb.vc)
fext(rb) == Const(6, 30 * rb.vc)

\* robot.model.gravity of the model the snapshot belongs to (m/s^2 on z).
Gravity0 == -9810

\* ------------------------------------------------ reference trajectories
\* ConstantSE3Trajectory(name, Mref): _dim = 6, zero velocity and
\* acceleration.
ConstantSE3Trajectory(Mref) ==
    [kind |-> "ConstantSE3Trajectory", _Mref |-> Mref,
     _v_ref |-> Const(6, 0), _a_ref |-> Const(6, 0)]

\* A trajectory object of the caller for an n-dimensional task space (any
\* callable with a dim attribute): a reference point with its velocity and
\* acceleration.
External(Mref, n, c) ==
    [kind |-> "external", _Mref |-> Mref,
     _v_ref |-> Ramp(n, 100 * c), _a_ref |-> Const(n, 100 * c)]

RefPoses == {P0, P1}
ConstTrajs == { ConstantSE3Trajectory(M) : M \in RefPoses }
ExtTrajs(n) == { External(P0, n, 3) }
NoTraj == [kind |-> "unset", _Mref |-> P0, _v_ref |-> <<>>, _a_ref |-> <<>>]

\* ConstantSE3Trajectory.dim / the dim attribute of a caller's trajectory
dim(tr) == IF tr.kind = "ConstantSE3Trajectory" THEN 6 ELSE Len(tr._v_ref)

\* ConstantSE3Trajectory.__call__(t): (self._Mref, self._v_ref, self._a_ref)
Ref(tr, t) == [M |-> tr._Mref, v |-> tr._v_ref, a |-> tr._a_ref]

\* The reference point of a caller's trajectory read as an n-vector
\* (a CoM position, joint angles, a centroidal momentum).
RefPoint(tr, n) == [i \in 1..n |-> IF i <= 3 THEN tr._Mref.p[i] ELSE 0]

\* The target pose a gaze task is constructed with.
target == P2

\* ----------------------------------------------------------------- state
VARIABLES
    variant,          \* class of the task object; "none" before construction
    kp, kv,           \* Task.kp, Task.kv
    expDecay,         \* Task.expDecay
    adaptGain,        \* Task.adaptGain
    kmin, kmax, beta, \* Task.kmin, Task.kmax, Task.beta
    _mask,            \* self._mask
    __gain_matrix,    \* the diagonal of self.__gain_matrix
    _ref_trajectory,  \* self._ref_trajectory / self._ref_traj
    robot,            \* the collaborator's snapshot
    gravity,          \* robot.model.gravity (z component)
    call,             \* the last operation; with it the length or shape a
                      \* mask or setGain call was given, the (t, local_frame)
                      \* of a dyn_value call
    exc,              \* the exception it raised, "none" when it returned
    out,              \* what the last dyn_value call returned
    prev,             \* what the dyn_value call before it returned, when the
                      \* two calls were made in a row with the same arguments
    jac               \* what the last jacobian call returned

vars == << variant, kp, kv, expDecay, adaptGain, kmin, kmax, beta, _mask,
           __gain_matrix, _ref_trajectory, robot, gravity, call, exc, out,
           prev, jac >>

gains == << kp, kv >>
modes == << expDecay, adaptGain, kmin, kmax, beta >>
world == << robot, gravity >>

NoOut ==
    [status |-> "none", J |-> <<>>, drift |-> <<>>, a_des |-> <<>>,
     kp0 |-> 0, kv0 |-> 0]
NoJac ==
    [status |-> "none", J |-> <<>>, fresh |-> FALSE, local |-> TRUE, dyn |-> <<>>]

\* Task.__init__: the defaults of every task.
DefaultKp == 80
DefaultKmin == 1
DefaultKmax == 10
DefaultBeta == 5

Init ==
    /\ variant = "none"
    /\ kp = 0 /\ kv = 0
    /\ expDecay = FALSE /\ adaptGain = FALSE
    /\ kmin = 0 /\ kmax = 0 /\ beta = 0
    /\ _mask = <<>>
    /\ __gain_matrix = <<>>
    /\ _ref_trajectory = NoTraj
    /\ robot \in RobotStates
    /\ gravity = Gravity0
    /\ call = [op |-> "none", arg |-> <<>>]
    /\ exc = "none"
    /\ out = NoOut /\ prev = NoOut /\ jac = NoJac

Returned(op_, arg_) == call' = [op |-> op_, arg |-> arg_] /\ exc' = "none"
Raised(op_, arg_, e) == call' = [op |-> op_, arg |-> arg_] /\ exc' = e

\* An operation other than dyn_value and jacobian: the records of what those
\* returned describe the last call only and are cleared.
Forget == out' = NoOut /\ prev' = NoOut /\ jac' = NoJac

\* --------------------------------------------------------- constructors
\* Task.__init__(robot, name)
Task_init ==
    /\ kp' = DefaultKp * Scale
    /\ kv' = ISqrt(4 * DefaultKp * Scale * Scale)
    /\ expDecay' = FALSE
    /\ adaptGain' = FALSE
    /\ kmin' = DefaultKmin * Scale
    /\ kmax' = DefaultKmax * Scale
    /\ beta' = DefaultBeta * Scale

\* A constructor that returns: the fields of the new object.
Construct(cls, mask0, gain0, tr) ==
    /\ variant = "none"
    /\ variant' = cls
    /\ Task_init
    /\ _mask' = mask0
    /\ __gain_matrix' = gain0
    /\ _ref_trajectory' = tr
    /\ Returned("__init__", <<>>)
    /\ Forget
    /\ UNCHANGED << world >>

\* A constructor that raises: no object comes into being.
ConstructFails(cls, e) ==
    /\ variant = "none"
    /\ Raised("__init__", <<>>, e)
    /\ Forget
    /\ UNCHANGED << variant, gains, modes, _mask, __gain_matrix,
                    _ref_trajectory, world >>

SE3Task_init(tr) == Construct("SE3Task", Ones(6), Const(nv, 1), tr)

\* assert ref_trajectory.dim == 3 comes first.
CoMTask_init(tr) ==
    IF dim(tr) = 3
    THEN Construct("CoMTask", Ones(3), Const(nv, 1), tr)
    ELSE ConstructFails("CoMTask", "AssertionError")

JointPostureTask_init(tr) ==
    Construct("JointPostureTask", Ones(nv - 6), <<>>, tr)

\* zero(robot.nq) is a name the module never defines or imports.
PosturalTask_init == ConstructFails("PosturalTask", "NameError")

FreeFlyerTask_init(tr) == Construct("FreeFlyerTask", Ones(6), <<>>, tr)

MomentumTask_init(tr) == Construct("MomentumTask", Ones(6), Const(nv, 1), tr)

FlyMomentumTask_init(tr) ==
    Construct("FlyMomentumTask", Ones(6), Const(nv, 1), tr)

GazeSE3Task_init(tr) == Construct("GazeSE3Task", Ones(6), <<>>, tr)

KineticEnergyTask_init == Construct("KineticEnergyTask", Ones(nv), <<>>, NoTraj)

AngularMomentumTask_init ==
    Construct("AngularMomentumTask", Ones(nv), <<>>, NoTraj)

\* ------------------------------------------------ configuration surface
\* The values the caller writes into the attributes, the masks and the gain
\* vectors it passes.
KpInputs == { -Scale }
KvInputs == { -Scale }
KminInputs == { DefaultKmin * Scale, DefaultKp * Scale }
KmaxInputs == { DefaultKmax * Scale }
BetaInputs == { DefaultBeta * Scale }
\* For a task of native dimension n: the masks of that length, and masks one
\* longer and of the model's velocity dimension.
MasksOf(n) == { Ones(n), Zeros(n), [i \in 1..n |-> i % 2 = 1] }
MaskInputs(n) == MasksOf(n) \cup { Ones(n + 1), Ones(nv) }
\* A gain per velocity DOF, and a gain per row of the task.
GainVectors(n) == { [i \in 1..nv |-> 1 + (i % 2)], Const(n, 2) }

\* shape of a one-dimensional array
shape(x) == << Len(x) >>

Built == variant # "none"

\* task.kp = x, task.kv = x: plain attributes, nothing is checked.
Set_kp(x) ==
    /\ Built
    /\ kp' = x
    /\ Returned("setattr", <<>>)
    /\ Forget
    /\ UNCHANGED << variant, kv, modes, _mask, __gain_matrix,
                    _ref_trajectory, world >>

Set_kv(x) ==
    /\ Built
    /\ kv' = x
    /\ Returned("setattr", <<>>)
    /\ Forget
    /\ UNCHANGED << variant, kp, modes, _mask, __gain_matrix,
                    _ref_trajectory, world >>

\* task.expDecay = b, task.adaptGain = b
Set_expDecay(b) ==
    /\ Built
    /\ expDecay' = b
    /\ Returned("setattr", <<>>)
    /\ Forget
    /\ UNCHANGED << variant, gains, adaptGain, kmin, kmax, beta, _mask,
                    __gain_matrix, _ref_trajectory, world >>

Set_adaptGain(b) ==
    /\ Built
    /\ adaptGain' = b
    /\ Returned("setattr", <<>>)
    /\ Forget
    /\ UNCHANGED << variant, gains, expDecay, kmin, kmax, beta, _mask,
                    __gain_matrix, _ref_trajectory, world >>

\* task.kmin = x, task.kmax = x, task.beta = x
Set_kmin(x) ==
    /\ Built
    /\ kmin' = x
    /\ Returned("setattr", <<>>)
    /\ Forget
    /\ UNCHANGED << variant, gains, expDecay, adaptGain, kmax, beta, _mask,
                    __gain_matrix, _ref_trajectory, world >>

Set_kmax(x) ==
    /\ Built
    /\ kmax' = x
    /\ Returned("setattr", <<>>)
    /\ Forget
    /\ UNCHANGED << variant, gains, expDecay, adaptGain, kmin, beta, _mask,
                    __gain_matrix, _ref_trajectory, world >>

Set_beta(x) ==
    /\ Built
    /\ beta' = x
    /\ Returned("setattr", <<>>)
    /\ Forget
    /\ UNCHANGED << variant, gains, expDecay, adaptGain, kmin, kmax, _mask,
                    __gain_matrix, _ref_trajectory, world >>

\* mask with the two statements exchanged: the mask is stored, then checked.
SetMaskOf_stored_first(cls, n, m) ==
    /\ variant = cls
    /\ _mask' = m
    /\ IF Len(m) = n
       THEN Returned("mask", Len(m))
       ELSE Raised("mask", Len(m), "AssertionError")
    /\ Forget
    /\ UNCHANGED << variant, gains, modes, __gain_matrix, _ref_trajectory, world >>

\* def mask(self, mask): assert len(mask) == n; self._mask = mask.astype(bool)
SetMaskOf(cls, n, m) ==
    /\ variant = cls
    /\ IF Len(m) = n
       THEN _mask' = m /\ Returned("mask", Len(m))
       ELSE _mask' = _mask /\ Raised("mask", Len(m), "AssertionError")
    /\ Forget
    /\ UNCHANGED << variant, gains, modes, __gain_matrix, _ref_trajectory, world >>

SE3Task_mask(m) == SetMaskOf("SE3Task", 6, m)
CoMTask_mask(m) == SetMaskOf("CoMTask", 3, m)
JointPostureTask_mask(m) == SetMaskOf("JointPostureTask", nv - 6, m)
FreeFlyerTask_mask(m) == SetMaskOf("FreeFlyerTask", 6, m)
MomentumTask_mask(m) == SetMaskOf("MomentumTask", 6, m)
FlyMomentumTask_mask(m) == SetMaskOf("FlyMomentumTask", 6, m)
GazeSE3Task_mask(m) == SetMaskOf("GazeSE3Task", 6, m)
\* The constructor installs np.ones(robot.nv); the setter asks for 3.
AngularMomentumTask_mask(m) == SetMaskOf("AngularMomentumTask", 3, m)

\* setGain with the assertion left out: a vector of any shape is installed.
SetGainOf_unchecked(cls, g) ==
    /\ variant = cls
    /\ __gain_matrix' = g
    /\ Returned("setGain", shape(g))
    /\ Forget
    /\ UNCHANGED << variant, gains, modes, _mask, _ref_trajectory, world >>

\* def setGain(self, gain_vector):
\*     assert gain_vector.shape == (self.robot.nv,)
\*     self.__gain_matrix = np.matrix(np.diag(gain_vector))
SetGainOf(cls, g) ==
    /\ variant = cls
    /\ IF shape(g) = << nv >>
       THEN __gain_matrix' = g /\ Returned("setGain", shape(g))
       ELSE __gain_matrix' = __gain_matrix
            /\ Raised("setGain", shape(g), "AssertionError")
    /\ Forget
    /\ UNCHANGED << variant, gains, modes, _mask, _ref_trajectory, world >>

SE3Task_setGain(g) == SetGainOf("SE3Task", g)
CoMTask_setGain(g) == SetGainOf("CoMTask", g)
MomentumTask_setGain(g) == SetGainOf("MomentumTask", g)
FlyMomentumTask_setGain(g) == SetGainOf("FlyMomentumTask", g)

\* def setTrajectory(self, traj): self._ref_traj = traj
setTrajectory(tr) ==
    /\ variant \in {"MomentumTask", "FlyMomentumTask", "AngularMomentumTask"}
    /\ _ref_trajectory' = tr
    /\ Returned("setTrajectory", <<>>)
    /\ Forget
    /\ UNCHANGED << variant, gains, modes, _mask, __gain_matrix, world >>

\* ConstantSE3Trajectory.setReference(Mref): self._Mref = Mref
setReference(Mref) ==
    /\ Built
    /\ _ref_trajectory.kind = "ConstantSE3Trajectory"
    /\ _ref_trajectory' = [_ref_trajectory EXCEPT !._Mref = Mref]
    /\ Returned("setReference", Mref)
    /\ Forget
    /\ UNCHANGED << variant, gains, modes, _mask, __gain_matrix, world >>

\* ConstantSE3Trajectory.__call__(t) by the controller itself: the triple is
\* returned, nothing is written.
ConstantSE3Trajectory_call(t) ==
    /\ Built
    /\ _ref_trajectory.kind = "ConstantSE3Trajectory"
    /\ Returned("__call__", <<>>)
    /\ Forget
    /\ UNCHANGED << variant, gains, modes, _mask, __gain_matrix,
                    _ref_trajectory, world >>

\* The controller updates the collaborator with the next (q, v) before the
\* tasks of the next tick are evaluated.
robot_update(rb) ==
    /\ Built
    /\ robot' = rb
    /\ Returned("update", <<>>)
    /\ Forget
    /\ UNCHANGED << variant, gains, modes, _mask, __gain_matrix,
                    _ref_trajectory, gravity >>

\* ------------------------------------------------------------ dyn_value
\* The times t the caller evaluates the task at: the first sample of the
\* trajectory and a later one.
Times == { 0, 1 }

\* The end of a dyn_value call that returns (J, drift, a_des).  kp and kv in
\* the record are the gains the call found on entry.
Return(op_, arg_, J, drift, a_des) ==
    /\ out' = [status |-> "ok", J |-> J, drift |-> drift, a_des |-> a_des,
               kp0 |-> kp, kv0 |-> kv]
    /\ prev' = IF call.op = op_ /\ call.arg = arg_ THEN out ELSE NoOut
    /\ jac' = NoJac
    /\ Returned(op_, arg_)

\* The end of a dyn_value call that raises e.
Raise(op_, arg_, e) ==
    /\ out' = [status |-> "raised", J |-> <<>>, drift |-> <<>>,
               a_des |-> <<>>, kp0 |-> kp, kv0 |-> kv]
    /\ prev' = IF call.op = op_ /\ call.arg = arg_ THEN out ELSE NoOut
    /\ jac' = NoJac
    /\ Raised(op_, arg_, e)

\* R * x for a 3-vector that may hold nan: a matrix product spreads it.
RotN(R_, x) == IF \E i \in 1..3 : x[i] = NaN THEN Const(3, NaN) ELSE Rot(R_, x)

\* R * J for a 3 x n block of rows.
RotRows(R_, J) ==
    LET col(c) == Rot(R_, << J[1][c], J[2][c], J[3][c] >>)
    IN  [r \in 1..3 |-> [c \in 1..Len(J[1]) |-> col(c)[r]]]

\* SE3Task.dyn_value: self.p_error = errorInSE3(oMi, M_ref) and
\* self.v_error = v_frame - self._gMl.actInv(v_ref), both as 6-vectors.
SE3Task_p_error(t) ==
    errorInSE3(framePosition(robot), Ref(_ref_trajectory, t).M)

SE3Task_v_error(t) ==
    Sub(frameVelocity(robot),
        actInv(framePosition(robot).R, Ref(_ref_trajectory, t).v))

\* SE3Task.dyn_value: a_des = actInv(a_ref) - (kp*p_error + kv*v_error) with
\* the gains kp_ and kv_, its halves rotated into the world frame when
\* local_frame is False; before the mask.
SE3Task_a_des(t, local_frame, kp_, kv_) ==
    LET gMl == framePosition(robot).R
        a_des == PDVec(actInv(gMl, Ref(_ref_trajectory, t).a), kp_,
                       SE3Task_p_error(t), kv_, SE3Task_v_error(t))
    IN  IF local_frame THEN a_des
        ELSE RotN(gMl, SubSeq(a_des, 1, 3)) \o RotN(gMl, SubSeq(a_des, 4, 6))

\* SE3Task.positionError(t) with the reference pose overwritten by the pose
\* of the frame.
SE3Task_positionError_moving(t) ==
    /\ variant = "SE3Task"
    /\ _ref_trajectory' =
         [_ref_trajectory EXCEPT !._Mref = framePosition(robot)]
    /\ Returned("positionError", <<>>)
    /\ Forget
    /\ UNCHANGED << variant, gains, modes, _mask, __gain_matrix, world >>

\* SE3Task.positionError(t): returns p_error.vector[self._mask]; no field of
\* the task or of the trajectory is written.
SE3Task_positionError(t) ==
    /\ variant = "SE3Task"
    /\ Returned("positionError", <<>>)
    /\ Forget
    /\ UNCHANGED << variant, gains, modes, _mask, __gain_matrix,
                    _ref_trajectory, world >>

\* SE3Task.velocityError(t): returns v_error.vector[self._mask]; only the
\* scratch pose self._gMl is written.
SE3Task_velocityError(t) ==
    /\ variant = "SE3Task"
    /\ Returned("velocityError", <<>>)
    /\ Forget
    /\ UNCHANGED << variant, gains, modes, _mask, __gain_matrix,
                    _ref_trajectory, world >>

\* SE3Task.dyn_value(t, q, v, local_frame): the gain modes are commented
\* out, kp and kv are used as stored.
SE3Task_dyn_value(t, local_frame) ==
    /\ variant = "SE3Task"
    /\ LET oMi == framePosition(robot)
           v_frame == frameVelocity(robot)
           gMl == oMi.R
           acc == frameAcceleration(robot)
           drift == Add(SubSeq(acc, 1, 3),
                        cross(SubSeq(v_frame, 4, 6), SubSeq(v_frame, 1, 3)))
                    \o SubSeq(acc, 4, 6)
           J == frameJacobian(robot)
           driftW == IF local_frame THEN drift ELSE act(gMl, drift)
           a_desW == SE3Task_a_des(t, local_frame, kp, kv)
           JW == IF local_frame THEN J
                 ELSE RotRows(gMl, SubSeq(J, 1, 3)) \o RotRows(gMl, SubSeq(J, 4, 6))
       IN  Return("dyn_value", << t, local_frame >>,
                  ScaleCols(Rows(JW, _mask), __gain_matrix),
                  Rows(driftW, _mask), Rows(a_desW, _mask))
    /\ UNCHANGED << variant, gains, modes, _mask, __gain_matrix,
                    _ref_trajectory, world >>

\* SE3Task.kin_value(t, q, local_frame): overwrites kv, then kp, and returns
\* the masked Jacobian and desired velocity.
SE3Task_kin_value(t, local_frame) ==
    /\ variant = "SE3Task"
    /\ LET p_error == SE3Task_p_error(t)
       IN  /\ kv' = IF expDecay THEN exponentialDecay(kp) ELSE kv
           /\ kp' = IF adaptGain
                    THEN adaptativeGain(p_error, kmin, kmax, beta) ELSE kp
    /\ Returned("kin_value", <<>>)
    /\ Forget
    /\ UNCHANGED << variant, modes, _mask, __gain_matrix, _ref_trajectory, world >>

\* CoMTask.dyn_value: self.p_error = p_com - p_ref, self.v_error = v_com -
\* v_ref, and a_des = -(kp*p_error + kv*v_error) + a_ref with the gains kp_
\* and kv_; before the mask.
CoMTask_p_error(t) == Sub(com(robot).p, RefPoint(_ref_trajectory, 3))

CoMTask_v_error(t) == Sub(com(robot).v, Ref(_ref_trajectory, t).v)

CoMTask_a_des(t, kp_, kv_) ==
    PDVec(Ref(_ref_trajectory, t).a, kp_, CoMTask_p_error(t), kv_,
          CoMTask_v_error(t))

\* CoMTask.dyn_value(t, q, v)
CoMTask_dyn_value(t) ==
    /\ variant = "CoMTask"
    /\ LET c == com(robot)
           p_error == CoMTask_p_error(t)
           drift == c.a
           kv1 == IF expDecay THEN exponentialDecay(kp) ELSE kv
           kp1 == IF adaptGain
                  THEN adaptativeGain(p_error, kmin, kmax, beta) ELSE kp
           a_des == CoMTask_a_des(t, kp1, kv1)
           J == ScaleCols(Jcom(robot), __gain_matrix)
       IN  /\ kv' = kv1
           /\ kp' = kp1
           /\ Return("dyn_value", << t, TRUE >>,
                     Rows(J, _mask), Rows(drift, _mask), Rows(a_des, _mask))
    /\ UNCHANGED << variant, modes, _mask, __gain_matrix, _ref_trajectory,
                    world >>

\* The row count numpy gives an elementwise operation on column matrices of
\* a and b rows; -1 when the shapes do not broadcast.
Bcast(a, b) == IF a = b THEN a ELSE IF a = 1 THEN b ELSE IF b = 1 THEN a ELSE -1

\* Row i of an n-row column matrix broadcast from x.
At(x, i) == IF Len(x) = 1 THEN x[1] ELSE x[i]

\* The blocks stacked in the other order: identity first, zeros last.
JointPosture_jacobian_swapped ==
    [r \in 1..(nv - 6) |-> [c \in 1..nv |-> IF c = r THEN 1 ELSE 0]]

\* self._jacobian = np.hstack([np.zeros([robot.nv-6,6]),np.eye(robot.nv-6)]),
\* set by the constructor and only read afterwards.
JointPosture_jacobian ==
    [r \in 1..(nv - 6) |-> [c \in 1..nv |-> IF c = r + 6 THEN 1 ELSE 0]]

\* JointPostureTask.dyn_value(t, q, v): v[6:, t] takes column t of the one
\* column of v; the errors keep all nv-6 rows while the references are
\* masked.
JointPostureTask_dyn_value(t) ==
    /\ variant = "JointPostureTask"
    /\ LET n == nv - 6
           ref == Ref(_ref_trajectory, t)
           p_error == Sub(jointPosition(robot), RefPoint(_ref_trajectory, n))
           vj == SubSeq(velocity(robot), 7, nv)
           v_refM == Rows(ref.v, _mask)
           a_refM == Rows(ref.a, _mask)
           k == Len(v_refM)
           rows == Bcast(k, Bcast(n, Bcast(n, k)))
           v_error == [i \in 1..Bcast(n, k) |-> At(vj, i) - At(v_refM, i)]
           a_des == [i \in 1..rows |->
                       PD(At(a_refM, i), kp, At(p_error, i), kv, At(v_error, i))]
           drift == [i \in 1..rows |-> 0]
           jacobian == JointPosture_jacobian
       IN  IF t # 0 THEN Raise("dyn_value", << t, TRUE >>, "IndexError")
           ELSE IF Bcast(n, k) = -1 \/ rows = -1
           THEN Raise("dyn_value", << t, TRUE >>, "ValueError")
           ELSE IF rows # n
           THEN Raise("dyn_value", << t, TRUE >>, "IndexError")
           ELSE Return("dyn_value", << t, TRUE >>,
                       Rows(jacobian, _mask), Rows(drift, _mask),
                       Rows(a_des, _mask))
    /\ UNCHANGED << variant, gains, modes, _mask, __gain_matrix,
                    _ref_trajectory, world >>

\* What numpy does with a boolean index shorter than the axis it indexes:
\* releases before 1.13 select among the leading rows, later ones raise.
NumpyBuilds == { "lenient", "strict" }

\* FreeFlyerTask.dyn_value(t, q, v): the 6-entry mask indexes v and the
\* nv x nv identity; q_ref[:7, t] takes column t of the one column of q_ref.
FreeFlyerTask_dyn_value(t) ==
    /\ variant = "FreeFlyerTask"
    /\ \E build \in NumpyBuilds :
         LET ref == Ref(_ref_trajectory, t)
             p_error == errorInSE3(robot.oMi, ref.M)
             v_error == Sub(Rows(velocity(robot), _mask), Rows(ref.v, _mask))
             a_des == PDVec(Rows(ref.a, _mask), kp, Rows(p_error, _mask),
                            kv, v_error)
             drift == [i \in 1..Len(a_des) |-> 0]
             jacobian == [r \in 1..nv |-> [c \in 1..nv |-> IF c = r THEN 1 ELSE 0]]
         IN  IF t # 0 \/ (build = "strict" /\ Len(_mask) # nv)
             THEN Raise("dyn_value", << t, TRUE >>, "IndexError")
             ELSE Return("dyn_value", << t, TRUE >>,
                         Rows(jacobian, _mask), drift, a_des)
    /\ UNCHANGED << variant, gains, modes, _mask, __gain_matrix,
                    _ref_trajectory, world >>

\* self._calculateHdot(q): the summed rate of change of the segments'
\* momenta.
calculateHdot(rb) == Const(6, 20 * rb.vc)

\* _getBiais without model.gravity = m_gravity: gravity stays zero.
getBiais_zeroed(rb, g) ==
    LET zeroed == 0
        b == biasAtCom(rb)
    IN  [b |-> b, gravity |-> zeroed]

\* MomentumTask._getBiais(q, v): gravity is saved, zeroed for se3.nle and
\* written back; the value is the bias wrench at the centre of mass and the
\* gravity the model is left with.
getBiais(rb, g) ==
    LET m_gravity == g
        zeroed == 0
        b == biasAtCom(rb)
    IN  [b |-> b, gravity |-> m_gravity]

\* MomentumTask.dyn_value: self.p_error = hg_act[mask] - hg_ref[mask] and
\* self.v_error = dhg_act[mask] - dhg_ref[mask].
MomentumTask_p_error(t) ==
    Sub(Rows(hg(robot), _mask), Rows(RefPoint(_ref_trajectory, 6), _mask))

MomentumTask_v_error(t) ==
    Sub(Rows(calculateHdot(robot), _mask),
        Rows(Ref(_ref_trajectory, t).v, _mask))

\* The gain-scaled masked momentum matrix, the masked bias and -(kp*p_error):
\* what MomentumTask.dyn_value and dyn_value_h both return.  dh_des, the
\* law with the kv term, is computed by dyn_value and not returned.
MomentumValue(op_, t) ==
    LET JMom == ccrba(robot)
        bias == getBiais(robot, gravity)
        drift == Rows(bias.b, _mask)
        p_error == MomentumTask_p_error(t)
        v_error == MomentumTask_v_error(t)
        dh_des == PDVec(Const(Len(p_error), 0), kp, p_error, kv, v_error)
        h_des == [i \in 1..Len(p_error) |-> -(kp * p_error[i])]
        jacobian == ScaleCols(Rows(JMom, _mask), __gain_matrix)
    IN  /\ gravity' = bias.gravity
        /\ Return(op_, << t, TRUE >>, jacobian, drift, h_des)

MomentumTask_dyn_value(t) ==
    /\ variant = "MomentumTask"
    /\ MomentumValue("dyn_value", t)
    /\ UNCHANGED << variant, gains, modes, _mask, __gain_matrix,
                    _ref_trajectory, robot >>

MomentumTask_dyn_value_h(t) ==
    /\ variant = "MomentumTask"
    /\ MomentumValue("dyn_value_h", t)
    /\ UNCHANGED << variant, gains, modes, _mask, __gain_matrix,
                    _ref_trajectory, robot >>

\* FlyMomentumTask.dyn_value(t, q, v): a_des = kv * robot.fext[mask]; the
\* trajectory is not read.
FlyMomentumTask_dyn_value(t) ==
    /\ variant = "FlyMomentumTask"
    /\ LET JMom == ccrba(robot)
           f == Rows(fext(robot), _mask)
           a_des == [i \in 1..Len(f) |-> IF kv = NaN THEN NaN ELSE kv * f[i]]
           m_gravity == gravity
           drift == Rows(biasAtCom(robot), _mask)
           jacobian == ScaleCols(Rows(JMom, _mask), __gain_matrix)
       IN  /\ gravity' = m_gravity
           /\ Return("dyn_value", << t, TRUE >>, jacobian, drift, a_des)
    /\ UNCHANGED << variant, gains, modes, _mask, __gain_matrix,
                    _ref_trajectory, robot >>

\* GazeSE3Task.dyn_value -> vectorsMethod(t, q, v): row 5 of the frame
\* Jacobian, of the drift and of the pose error towards M_des, a pure
\* rotation the caller's geometry library derives from the target seen from
\* the frame.  The mask is not read.
GazeSE3Task_dyn_value(t) ==
    /\ variant = "GazeSE3Task"
    /\ LET oMi == framePosition(robot)
           pMt == Mul(Inverse(oMi), target)
           M_des == Pose(pMt.R, <<0, 0, 0>>)
           a_des == -(kp * errorInSE3(oMi, M_des)[6])
           J == frameJacobian(robot)[6]
           v_frame == frameVelocity(robot)
           acc == frameAcceleration(robot)
           drift == Add(SubSeq(acc, 1, 3),
                        cross(SubSeq(v_frame, 4, 6), SubSeq(v_frame, 1, 3)))
                    \o SubSeq(acc, 4, 6)
       IN  Return("dyn_value", << t, TRUE >>, << J >>, << drift[6] >>, << a_des >>)
    /\ UNCHANGED << variant, gains, modes, _mask, __gain_matrix,
                    _ref_trajectory, world >>

\* KineticEnergyTask.dyn_value(t, q, v): self._frame_id is never set.
KineticEnergyTask_dyn_value(t) ==
    /\ variant = "KineticEnergyTask"
    /\ Raise("dyn_value", << t, TRUE >>, "AttributeError")
    /\ UNCHANGED << variant, gains, modes, _mask, __gain_matrix,
                    _ref_trajectory, world >>

\* AngularMomentumTask.dyn_value(t, q, v): M = self.robot.data.mass[0] is a
\* scalar and M[:6,:] raises before the trajectory is read, TypeError for a
\* Python float and IndexError for a numpy scalar.
AngularMomentumTask_dyn_value(t) ==
    /\ variant = "AngularMomentumTask"
    /\ \E e \in {"TypeError", "IndexError"} :
         Raise("dyn_value", << t, TRUE >>, e)
    /\ UNCHANGED << variant, gains, modes, _mask, __gain_matrix,
                    _ref_trajectory, world >>

\* ------------------------------------------------------------- jacobian
\* The end of a jacobian call that returns J.  When the call directly follows
\* a dyn_value call that returned, dyn keeps the Jacobian of that call and
\* local its local_frame argument.
JacReturn(J) ==
    /\ jac' = IF call.op = "dyn_value" /\ out.status = "ok"
               THEN [status |-> "ok", J |-> J, fresh |-> TRUE,
                     local |-> call.arg[2], dyn |-> out.J]
               ELSE [status |-> "ok", J |-> J, fresh |-> FALSE,
                     local |-> TRUE, dyn |-> <<>>]
    /\ out' = NoOut /\ prev' = NoOut
    /\ Returned("jacobian", <<>>)

\* SE3Task.jacobian(q, update_geometry)
SE3Task_jacobian ==
    /\ variant = "SE3Task"
    /\ JacReturn(Rows(frameJacobian(robot), _mask))
    /\ UNCHANGED << variant, gains, modes, _mask, __gain_matrix,
                    _ref_trajectory, world >>

\* CoMTask.jacobian(q, update_geometry)
CoMTask_jacobian ==
    /\ variant = "CoMTask"
    /\ JacReturn(Rows(Jcom(robot), _mask))
    /\ UNCHANGED << variant, gains, modes, _mask, __gain_matrix,
                    _ref_trajectory, world >>

\* AngularMomentumTask.jacobian(q): eye is a name the module never defines.
AngularMomentumTask_jacobian ==
    /\ variant = "AngularMomentumTask"
    /\ jac' = [status |-> "raised", J |-> <<>>, fresh |-> FALSE,
               local |-> TRUE, dyn |-> <<>>]
    /\ out' = NoOut /\ prev' = NoOut
    /\ Raised("jacobian", <<>>, "NameError")
    /\ UNCHANGED << variant, gains, modes, _mask, __gain_matrix,
                    _ref_trajectory, world >>

\* ------------------------------------------------------- specification
Next ==
    \/ \E tr \in ConstTrajs : SE3Task_init(tr)
    \/ \E tr \in ConstTrajs \cup ExtTrajs(3) : CoMTask_init(tr)
    \/ \E tr \in ExtTrajs(nv - 6) : JointPostureTask_init(tr)
    \/ PosturalTask_init
    \/ \E tr \in ExtTrajs(nv) : FreeFlyerTask_init(tr)
    \/ \E tr \in ExtTrajs(6) : MomentumTask_init(tr)
    \/ \E tr \in ExtTrajs(6) : FlyMomentumTask_init(tr)
    \/ \E tr \in ConstTrajs : GazeSE3Task_init(tr)
    \/ KineticEnergyTask_init
    \/ AngularMomentumTask_init
    \/ \E x \in KpInputs : Set_kp(x)
    \/ \E x \in KvInputs : Set_kv(x)
    \/ \E b \in BOOLEAN : Set_expDecay(b)
    \/ \E b \in BOOLEAN : Set_adaptGain(b)
    \/ \E x \in KminInputs : Set_kmin(x)
    \/ \E x \in KmaxInputs : Set_kmax(x)
    \/ \E x \in BetaInputs : Set_beta(x)
    \/ \E m \in MaskInputs(6) : SE3Task_mask(m)
    \/ \E m \in MaskInputs(3) : CoMTask_mask(m)
    \/ \E m \in MaskInputs(nv - 6) : JointPostureTask_mask(m)
    \/ \E m \in MaskInputs(6) : FreeFlyerTask_mask(m)
    \/ \E m \in MaskInputs(6) : MomentumTask_mask(m)
    \/ \E m \in MaskInputs(6) : FlyMomentumTask_mask(m)
    \/ \E m \in MaskInputs(6) : GazeSE3Task_mask(m)
    \/ \E m \in MaskInputs(3) : AngularMomentumTask_mask(m)
    \/ \E g \in GainVectors(6) : SE3Task_setGain(g)
    \/ \E g \in GainVectors(3) : CoMTask_setGain(g)
    \/ \E g \in GainVectors(6) : MomentumTask_setGain(g)
    \/ \E g \in GainVectors(6) : FlyMomentumTask_setGain(g)
    \/ \E tr \in ExtTrajs(6) : setTrajectory(tr)
    \/ \E M \in RefPoses : setReference(M)
    \/ \E t \in Times : ConstantSE3Trajectory_call(t)
    \/ \E rb \in RobotStates : robot_update(rb)
    \/ \E t \in Times : SE3Task_positionError(t)
    \/ \E t \in Times : SE3Task_velocityError(t)
    \/ \E t \in Times, lf \in BOOLEAN : SE3Task_dyn_value(t, lf)
    \/ \E t \in Times, lf \in BOOLEAN : SE3Task_kin_value(t, lf)
    \/ \E t \in Times : CoMTask_dyn_value(t)
    \/ \E t \in Times : JointPostureTask_dyn_value(t)
    \/ \E t \in Times : FreeFlyerTask_dyn_value(t)
    \/ \E t \in Times : MomentumTask_dyn_value(t)
    \/ \E t \in Times : MomentumTask_dyn_value_h(t)
    \/ \E t \in Times : FlyMomentumTask_dyn_value(t)
    \/ \E t \in Times : GazeSE3Task_dyn_value(t)
    \/ \E t \in Times : KineticEnergyTask_dyn_value(t)
    \/ \E t \in Times : AngularMomentumTask_dyn_value(t)
    \/ SE3Task_jacobian
    \/ CoMTask_jacobian
    \/ AngularMomentumTask_jacobian

Spec == Init /\ [][Next]_vars

\* ---------------------------------------------------------- properties
\* The length of the mask each constructor installs: the native dimension of
\* the task.
nativeDimension(cls) ==
    CASE cls = "CoMTask" -> 3
      [] cls = "JointPostureTask" -> nv - 6
      [] cls \in {"KineticEnergyTask", "AngularMomentumTask"} -> nv
      [] OTHER -> 6

\* The last operation was a dyn_value call and it returned its triple.
DynReturned == call.op = "dyn_value" /\ out.status = "ok"

\* C1: every dyn_value call that returns gives J, drift and a_des the same
\* number of rows, the number of true entries of the installed mask.
C1_RowCounts ==
    DynReturned =>
        /\ Len(out.J) = CountTrue(_mask)
        /\ Len(out.drift) = CountTrue(_mask)
        /\ Len(out.a_des) = CountTrue(_mask)

\* C2: the desired acceleration a dyn_value call returns is the reference
\* acceleration minus (kp * position error + kv * velocity error) on the
\* rows of the mask, with the gains of the task; for the momentum task, whose
\* reference acceleration is zero, it is -(kp * p_error + kv * v_error).
C2_PDLaw ==
    DynReturned =>
        CASE variant = "SE3Task" ->
               out.a_des =
                 Rows(SE3Task_a_des(call.arg[1], call.arg[2], kp, kv), _mask)
          [] variant = "CoMTask" ->
               out.a_des = Rows(CoMTask_a_des(call.arg[1], kp, kv), _mask)
          [] variant = "MomentumTask" ->
               out.a_des =
                 PDVec(Const(CountTrue(_mask), 0),
                       kp, MomentumTask_p_error(call.arg[1]),
                       kv, MomentumTask_v_error(call.arg[1]))
          [] OTHER -> TRUE

\* C3: after a dyn_value call of a task with gain modes, kv is 2*sqrt(kp) of
\* the kp the call found when exponential decay is on, and kp is the adaptive
\* gain of the position error of that call when adaptive gain is on.
C3_GainModes ==
    (DynReturned /\ variant \in {"SE3Task", "CoMTask"}) =>
        LET t == call.arg[1]
            p_error == IF variant = "SE3Task" THEN SE3Task_p_error(t)
                       ELSE CoMTask_p_error(t)
        IN  /\ expDecay => kv = exponentialDecay(out.kp0)
            /\ adaptGain => kp = adaptativeGain(p_error, kmin, kmax, beta)

\* C4: a mask call fails exactly when the length of the mask differs from
\* the native dimension of the task, the length of the mask it was
\* constructed with.
C4_MaskLength ==
    call.op = "mask" =>
        IF call.arg = nativeDimension(variant)
        THEN exc = "none"
        ELSE exc = "AssertionError"

\* C5: with an all-false mask a dyn_value call does not fail and returns J,
\* drift and a_des with zero rows.
C5_EmptyMask ==
    (call.op = "dyn_value" /\ CountTrue(_mask) = 0) =>
        /\ out.status = "ok"
        /\ out.J = <<>> /\ out.drift = <<>> /\ out.a_des = <<>>

\* C6: two dyn_value calls in a row with the same arguments and nothing in
\* between return the same J, drift and a_des.
C6_Idempotent ==
    (DynReturned /\ prev.status = "ok") =>
        /\ out.J = prev.J
        /\ out.drift = prev.drift
        /\ out.a_des = prev.a_des

\* C7: a jacobian call right after a dyn_value call in the local frame
\* returns the J that call returned.
C7_JacobianConsistent ==
    (call.op = "jacobian" /\ jac.status = "ok" /\ jac.fresh /\ jac.local) =>
        jac.J = jac.dyn

\* C8: a dyn_value call uses the configuration as it stands at the call: the
\* stored kp and kv, replaced by 2*sqrt(kp) and the adaptive gain of
\* (kmin, kmax, beta) when the flags are on, the installed mask and the
\* installed per-DOF gains.
C8_ConfigurationTakesEffect ==
    (DynReturned /\ variant \in {"SE3Task", "CoMTask"}) =>
        LET t == call.arg[1]
            p_error == IF variant = "SE3Task" THEN SE3Task_p_error(t)
                       ELSE CoMTask_p_error(t)
            kvE == IF expDecay THEN exponentialDecay(out.kp0) ELSE out.kv0
            kpE == IF adaptGain THEN adaptativeGain(p_error, kmin, kmax, beta)
                   ELSE out.kp0
            a_des == IF variant = "SE3Task"
                     THEN SE3Task_a_des(t, call.arg[2], kpE, kvE)
                     ELSE CoMTask_a_des(t, kpE, kvE)
        IN  /\ out.a_des = Rows(a_des, _mask)
            /\ Len(out.J) = CountTrue(_mask)
            /\ \A r \in 1..Len(out.J) : Len(out.J[r]) = Len(__gain_matrix)

\* C9: the gains of a task are never negative, and kmin <= kmax whenever
\* adaptive gain is on.
C9_GainsValid ==
    Built =>
        /\ kp >= 0
        /\ kv >= 0
        /\ adaptGain => kmin <= kmax

\* C10 as stated: a setGain call with a vector whose shape is not the native
\* dimension of the task fails.
C10_NativeShape ==
    (call.op = "setGain" /\ call.arg # << nativeDimension(variant) >>) =>
        exc = "AssertionError"

\* C10: a setGain call fails with AssertionError exactly when the shape of
\* the vector is not (robot.nv,), and then the gain matrix is the one the
\* task had; an accepted vector has one entry per velocity DOF.
C10_SetGainShape ==
    [][ call'.op = "setGain" =>
          IF call'.arg = << nv >>
          THEN exc' = "none" /\ Len(__gain_matrix') = nv
          ELSE exc' = "AssertionError" /\ __gain_matrix' = __gain_matrix ]_vars

\* A dyn_value call of a task with gain modes returned, with adaptive gain on
\* and kmin = 1, kmax = 10, beta = 5, and its position error had norm 0.
AdaptiveAtZeroError ==
    /\ DynReturned
    /\ variant \in {"SE3Task", "CoMTask"}
    /\ adaptGain
    /\ kmin = DefaultKmin * Scale
    /\ kmax = DefaultKmax * Scale
    /\ beta = DefaultBeta * Scale
    /\ Norm(IF variant = "SE3Task" THEN SE3Task_p_error(call.arg[1])
            ELSE CoMTask_p_error(call.arg[1])) = 0

\* C12 as stated: with adaptive gain on and kmin = 1, kmax = 10, beta = 5, a
\* dyn_value call whose position error has norm 0 leaves kp = 10.
C12_KpIsKmax == AdaptiveAtZeroError => kp = DefaultKmax * Scale

\* C12: with adaptive gain on and kmin = 1, kmax = 10, beta = 5, a dyn_value
\* call of the CoM task whose position error has norm 0 leaves kp = 1, the
\* value of kmin.
C12_KpIsKmin ==
    (AdaptiveAtZeroError /\ variant = "CoMTask") => kp = DefaultKmin * Scale

\* C12 happens: such a call of the CoM task has returned and kp is 1.
C12_Witness ==
    /\ AdaptiveAtZeroError
    /\ variant = "CoMTask"
    /\ out.kp0 = DefaultKp * Scale
    /\ kp = DefaultKmin * Scale

\* The positions of the true entries of a mask, in order, from position i on.
RECURSIVE TrueIndices(_, _)
TrueIndices(m, i) ==
    IF i > Len(m) THEN <<>>
    ELSE (IF m[i] THEN << i >> ELSE <<>>) \o TrueIndices(m, i + 1)

\* C13: the Jacobian a dyn_value call of the reduced joint-posture task
\* returns has one row per true entry of the mask; the row of joint i is zero
\* over the 6 floating-base columns and the i-th unit vector over the nv-6
\* actuated columns, for every snapshot and time and after earlier calls:
\* [0 | I] for the all-true mask.
C13_SelectionJacobian ==
    (DynReturned /\ variant = "JointPostureTask") =>
        LET idx == TrueIndices(_mask, 1)
        IN  /\ Len(out.J) = Len(idx)
            /\ \A k \in 1..Len(idx) :
                 out.J[k] = [c \in 1..nv |-> IF c = 6 + idx[k] THEN 1 ELSE 0]

\* C13 happens: two dyn_value calls in a row of a reduced joint-posture task
\* with the all-true mask have returned, the second one a Jacobian of nv-6
\* rows.
C13_Witness ==
    /\ DynReturned
    /\ variant = "JointPostureTask"
    /\ _mask = Ones(nv - 6)
    /\ prev.status = "ok"
    /\ Len(out.J) = nv - 6

\* C14: no operation other than a constructor, setReference and
\* setTrajectory changes the reference trajectory of a task (dyn_value,
\* kin_value, jacobian, positionError, velocityError and trajectory queries
\* leave it as it is); setReference installs the pose it is given; and a
\* ConstantSE3Trajectory queried at any time returns its installed pose with
\* zero velocity and zero acceleration.
C14_TrajectoryNotMutated ==
    [][ /\ call'.op \notin {"__init__", "setReference", "setTrajectory"}
            => _ref_trajectory' = _ref_trajectory
        /\ call'.op = "setReference" => _ref_trajectory'._Mref = call'.arg
        /\ _ref_trajectory'.kind = "ConstantSE3Trajectory" =>
              \A t \in Times :
                 Ref(_ref_trajectory', t) =
                   [M |-> _ref_trajectory'._Mref,
                    v |-> Const(6, 0), a |-> Const(6, 0)] ]_vars

\* C14 happens: two dyn_value calls in a row of a frame-pose task have
\* returned, its ConstantSE3Trajectory still holds a reference pose that
\* differs from the pose of the frame.
C14_Witness ==
    /\ DynReturned
    /\ variant = "SE3Task"
    /\ prev.status = "ok"
    /\ _ref_trajectory.kind = "ConstantSE3Trajectory"
    /\ _ref_trajectory._Mref = P1
    /\ framePosition(robot) # P1

\* C15: after a dyn_value call of a task with both gain modes on, the stored
\* kv is 2*sqrt(kp) of the stored kp, the kp the call formed a_des with.
C15_CriticallyDamped ==
    (DynReturned /\ variant \in {"SE3Task", "CoMTask"}
        /\ expDecay /\ adaptGain) => kv = exponentialDecay(kp)

\* C16: a mask or setGain call that raises changes no field of the task (the
\* mask, the gain matrix, the gains, the modes and the trajectory are the
\* ones before the call), and a dyn_value call of a frame-pose, CoM or
\* momentum task that returns selects the rows of the installed mask.
C16_RejectedSetterKeepsState ==
    [][ /\ (call'.op \in {"mask", "setGain"} /\ exc' # "none") =>
              /\ _mask' = _mask
              /\ __gain_matrix' = __gain_matrix
              /\ UNCHANGED << variant, gains, modes, _ref_trajectory, world >>
        /\ (call'.op = "dyn_value" /\ out'.status = "ok"
              /\ variant' \in {"SE3Task", "CoMTask", "MomentumTask"}) =>
              /\ Len(out'.J) = CountTrue(_mask')
              /\ Len(out'.a_des) = CountTrue(_mask')
              /\ \A r \in 1..Len(out'.J) : Len(out'.J[r]) = nv ]_vars

\* C16 happens: a mask call on a task with a partly false mask has raised and
\* that mask is still installed.
C16_Witness ==
    /\ call.op = "mask"
    /\ exc = "AssertionError"
    /\ variant \in {"SE3Task", "CoMTask", "MomentumTask"}
    /\ call.arg # Len(_mask)
    /\ 0 < CountTrue(_mask) /\ CountTrue(_mask) < Len(_mask)

\* C17: a dyn_value or dyn_value_h call of a momentum task leaves the gravity
\* of the shared model and the snapshot of the collaborator as they were
\* before the call.
C17_GravityRestored ==
    [][ (call'.op \in {"dyn_value", "dyn_value_h"}
           /\ variant \in {"MomentumTask", "FlyMomentumTask"}) =>
              gravity' = gravity /\ robot' = robot ]_vars

\* C17 happens: dyn_value_h of a momentum task has returned and gravity is
\* the non-zero gravity of the model.
C17_Witness ==
    /\ call.op = "dyn_value_h"
    /\ out.status = "ok"
    /\ variant = "MomentumTask"
    /\ gravity = Gravity0
    /\ gravity # 0

\* ------------------------------------------- the gain law in floating point
\* The task machine above computes the gain laws in fixed point, where only
\* their magnitudes matter.  The code computes them in binary floating point:
\* every sum, difference and product is rounded to the nearest value with a
\* mantissa of MantissaBits bits (53 for the doubles of the code; the format
\* here is shorter and rounds the same way, to nearest with ties to even).
\* A float is an integer count of eighths.
MantissaBits == 4
FlUnit == 8

\* The spacing of the floats around a magnitude a: the smallest power of two
\* q with a < 2^MantissaBits * q.
RECURSIVE FlQuantum(_, _)
FlQuantum(a, q) ==
    IF a < (2 ^ MantissaBits) * q THEN q ELSE FlQuantum(a, 2 * q)

\* The float nearest to x.
fl(x) ==
    LET a == Abs(x)
        q == FlQuantum(a, 1)
        lo == (a \div q) * q
        r == a - lo
        m == IF 2 * r < q THEN lo
             ELSE IF 2 * r > q THEN lo + q
             ELSE IF (lo \div q) % 2 = 0 THEN lo ELSE lo + q
    IN  IF x < 0 THEN -m ELSE m

\* adaptativeGain with kmin and kmax exchanged.
adaptativeGain_float_swapped(p_error, kmin_, kmax_, beta_) ==
    LET n == Norm(p_error)
        q == (4 * beta_ * n) \div (FlUnit * FlUnit)
        e == ExpQuarter(q)
    IN  fl(fl((fl(kmax_ - kmin_) * e) \div Scale) + kmin_)

\* adaptativeGain(p_error, kmin, kmax, beta)
\*   = ( (kmin - kmax)*np.exp(-beta*np.linalg.norm(p_error)) ) + kmax
\* on floats: the difference, its product with the exponential (a factor
\* e/Scale, exactly 1 for a zero norm) and the sum are each rounded.
adaptativeGain_float(p_error, kmin_, kmax_, beta_) ==
    LET n == Norm(p_error)
        q == (4 * beta_ * n) \div (FlUnit * FlUnit)
        e == ExpQuarter(q)
    IN  fl(fl((fl(kmin_ - kmax_) * e) \div Scale) + kmax_)

\* The floats the caller passes for kmin and kmax (0, 1, 1.125, 1.25, 1.5, 2,
\* 5, 10), for beta (1, 5) and the error vectors (zero in 3 and 6 dimensions,
\* norm 1, norm 100).
FloatGains == { 0, 8, 9, 10, 12, 16, 40, 80 }
FloatBetas == { 8, 40 }
ErrorInputs ==
    { Const(3, 0), Const(6, 0), << 8, 0, 0 >>, << 0, 800, 0, 0, 0, 0 >> }

\* The module function is called on its own: kmin, kmax and beta hold the
\* arguments, kp receives the value.
GainInit ==
    /\ variant = "none"
    /\ kp = 0 /\ kv = 0
    /\ expDecay = FALSE /\ adaptGain = FALSE
    /\ kmin \in FloatGains /\ kmax \in FloatGains /\ beta \in FloatBetas
    /\ _mask = <<>>
    /\ __gain_matrix = <<>>
    /\ _ref_trajectory = NoTraj
    /\ robot \in RobotStates
    /\ gravity = Gravity0
    /\ call = [op |-> "none", arg |-> <<>>]
    /\ exc = "none"
    /\ out = NoOut /\ prev = NoOut /\ jac = NoJac

adaptativeGain_call(p_error) ==
    /\ kp' = adaptativeGain_float(p_error, kmin, kmax, beta)
    /\ call' = [op |-> "adaptativeGain", arg |-> p_error]
    /\ UNCHANGED << variant, kv, modes, _mask, __gain_matrix, _ref_trajectory,
                    world, exc, out, prev, jac >>

GainNext == \E p_error \in ErrorInputs : adaptativeGain_call(p_error)

SpecGain == GainInit /\ [][GainNext]_vars

\* C11 as stated: adaptativeGain of an error of norm 0 is kmin, for all
\* kmin, kmax and beta.
C11_ExactlyKmin ==
    (call.op = "adaptativeGain" /\ Norm(call.arg) = 0) => kp = kmin

\* C11: adaptativeGain of an error of norm 0 is kmin, for every beta,
\* whenever the difference kmin - kmax is a float (no rounding error in the
\* subtraction), as it is for integer gains.
C11_KminWhenDifferenceExact ==
    (call.op = "adaptativeGain" /\ Norm(call.arg) = 0
        /\ fl(kmin - kmax) = kmin - kmax) => kp = kmin

\* C11 happens: the gain law was applied to a zero error with kmin = 1 and
\* kmax = 10 and returned 1.
C11_Witness ==
    /\ call.op = "adaptativeGain"
    /\ Norm(call.arg) = 0
    /\ kmin = DefaultKmin * FlUnit /\ kmax = DefaultKmax * FlUnit
    /\ kp = kmin

\* C10 happens: a setGain call with a vector of the native dimension of the
\* task, not of robot.nv, has raised and the gain matrix is still nv wide.
C10_Witness ==
    /\ call.op = "setGain"
    /\ call.arg = << nativeDimension(variant) >>
    /\ call.arg # << nv >>
    /\ exc = "AssertionError"
    /\ Len(__gain_matrix) = nv

====
